---------------------------- MODULE Spec2Model ----------------------------
(***************************************************************************)
(* The dual-window Goertzel tone-power estimator of src/src/main.rs        *)
(* (struct Goertzel, Goertzel::new, Goertzel::filter), driven one sample   *)
(* per call by the input callback of main.                                 *)
(*                                                                         *)
(* Numbers.  An f32 is modelled as a record [fin, v]: a finite value is    *)
(* [fin |-> TRUE, v |-> an integer], NaN is [fin |-> FALSE, v |-> 0] and   *)
(* +Inf / -Inf are [fin |-> FALSE, v |-> 1 / -1].  The sample streams of   *)
(* the model are integer valued, and every finite result is rounded to    *)
(* the 24-bit significand of an f32 (RoundF32), so the finite values the   *)
(* model computes are the values the f32 arithmetic of filter computes.   *)
(* Signed zeros are not told apart.  n_total and n are i32.               *)
(***************************************************************************)
EXTENDS Integers, Sequences, FiniteSets, TLC

(***************************************************************************)
(* Bounds of the model.                                                    *)
(***************************************************************************)
\* Calls of filter in one run.
MaxCalls == 2100
\* A run that starts shortly before n_total overflows starts this many
\* calls before n_total = I32Max.
WrapLead == 100
\* A run that starts shortly before n_total comes back to 0 starts at
\* n_total = -ZeroLead.
ZeroLead == 100
\* Largest magnitude of a resonator value the model computes with: the
\* squares and products of line 79-80 then stay inside the integers of TLC.
MaxMag == 30000
\* The calls after a reset for which a slot's windows are recomputed from
\* the stream after every call; later they are recomputed when the count of
\* the slot is one short of a multiple of W, as in the call before a reset.
MaxSpan == 50
\* The samples that the recomputation of a window takes in one piece.
Chunk == 50

(***************************************************************************)
(* Program constants.                                                      *)
(***************************************************************************)
\* The window length, the literal 1000 of lines 66 and 70.
W == 1000
I32Max == 2147483647
I32Min == -2147483647 - 1

Slots == {0, 1}

(***************************************************************************)
(* f32 values.                                                             *)
(***************************************************************************)
Fin(x) == [fin |-> TRUE, v |-> x]
NaN == [fin |-> FALSE, v |-> 0]
PInf == [fin |-> FALSE, v |-> 1]
NInf == [fin |-> FALSE, v |-> -1]

IsNaN(a) == ~a.fin /\ a.v = 0
IsInf(a) == ~a.fin /\ a.v # 0
IsFinite(a) == a.fin

Abs(x) == IF x < 0 THEN -x ELSE x
Sign(x) == IF x < 0 THEN -1 ELSE IF x > 0 THEN 1 ELSE 0

\* The distance between neighbouring f32 values at magnitude m (m an
\* integer below 2^31): 1 below 2^24, doubling with every binade.
Ulp(m) ==
  IF m < 16777216 THEN 1
  ELSE IF m < 33554432 THEN 2
  ELSE IF m < 67108864 THEN 4
  ELSE IF m < 134217728 THEN 8
  ELSE IF m < 268435456 THEN 16
  ELSE IF m < 536870912 THEN 32
  ELSE IF m < 1073741824 THEN 64
  ELSE 128

\* Round to nearest f32, ties to the even significand.
RoundF32(x) ==
  LET m == Abs(x)
      u == Ulp(m)
      q == m \div u
      r == m % u
      up == (2 * r > u) \/ (2 * r = u /\ q % 2 = 1)
  IN Sign(x) * ((IF up THEN q + 1 ELSE q) * u)

FNeg(a) == [a EXCEPT !.v = -a.v]

FAdd(a, b) ==
  IF a.fin /\ b.fin THEN Fin(RoundF32(a.v + b.v))
  ELSE IF IsNaN(a) \/ IsNaN(b) THEN NaN
  ELSE IF IsInf(a) /\ IsInf(b) THEN (IF a.v = b.v THEN a ELSE NaN)
  ELSE IF IsInf(a) THEN a ELSE b

FSub(a, b) == FAdd(a, FNeg(b))

FMul(a, b) ==
  IF a.fin /\ b.fin THEN Fin(RoundF32(a.v * b.v))
  ELSE IF IsNaN(a) \/ IsNaN(b) THEN NaN
  ELSE IF (a.fin /\ a.v = 0) \/ (b.fin /\ b.v = 0) THEN NaN
  ELSE [fin |-> FALSE, v |-> Sign(a.v) * Sign(b.v)]

(***************************************************************************)
(* The coefficient of lines 55-56.  A coefficient is [fin, v, den]: the    *)
(* f32 value v / den, or NaN.                                              *)
(***************************************************************************)
\* coeff = 2 * cos(2 * 3.13 * freq / samplef), evaluated in f32, for the
\* configurations of the model.  freq / 0 is +Inf (NaN for freq = 0) and the
\* cosine of either is NaN.  For |6.26 * freq / samplef| < 2.4e-4 the f32
\* cosine is exactly 1, within 2.4e-4 of pi it is exactly -1.
Coeff(f, sf) ==
  IF sf = 0 THEN [fin |-> FALSE, v |-> 0, den |-> 1]
  ELSE IF <<f, sf>> = <<440, 44000>> THEN [fin |-> TRUE, v |-> 16744354, den |-> 8388608]
  ELSE IF <<f, sf>> = <<22080, 44000>> THEN [fin |-> TRUE, v |-> -2, den |-> 1]
  ELSE [fin |-> TRUE, v |-> 2, den |-> 1]

\* coeff * x (lines 57, 61, 80).  For a coefficient that is no integer the
\* product is modelled only where it needs no rounding: x zero or not finite.
CMul(c, x) ==
  IF ~c.fin THEN NaN
  ELSE IF c.den = 1 THEN FMul(Fin(c.v), x)
  ELSE IF x.fin THEN Fin(0)
  ELSE FMul(Fin(Sign(c.v)), x)

\* The products the model can compute exactly, and without leaving the
\* integers of TLC.
Representable(c, x) ==
  x.fin => /\ Abs(x.v) <= MaxMag
           /\ (c.fin /\ c.den # 1) => x.v = 0

(***************************************************************************)
(* The caller: main constructs one estimator and its input callback feeds  *)
(* it the samples of the device in arrival order (lines 155-163).  A       *)
(* stream is a run-length coded prefix followed by a periodic tail.        *)
(***************************************************************************)
Run(x, len) == <<x, len>>

RECURSIVE RunsLen(_)
RunsLen(runs) == IF runs = <<>> THEN 0 ELSE Head(runs)[2] + RunsLen(Tail(runs))

RECURSIVE InRuns(_, _)
InRuns(runs, i) ==
  IF i < Head(runs)[2] THEN Head(runs)[1] ELSE InRuns(Tail(runs), i - Head(runs)[2])

\* The i-th sample (from 0) of stream st.
SampleAt(st, i) ==
  IF i < RunsLen(st.runs) THEN InRuns(st.runs, i)
  ELSE st.tail[((i - RunsLen(st.runs)) % Len(st.tail)) + 1]

Silence == [runs |-> <<>>, tail |-> <<Fin(0)>>]
\* A sinusoid of amplitude 1 at a quarter of the sample rate.
Sine4 == [runs |-> <<>>, tail |-> <<Fin(0), Fin(1), Fin(0), Fin(-1)>>]
\* A tone at half the sample rate.
Alternating == [runs |-> <<>>, tail |-> <<Fin(1), Fin(-1)>>]
\* 91 samples of +1, 90 samples of -1, then silence.
Ramp == [runs |-> <<Run(Fin(1), 91), Run(Fin(-1), 90)>>, tail |-> <<Fin(0)>>]
\* Silence with one NaN, one +Inf sample; a sinusoid with one NaN sample.
SilenceNaN == [runs |-> <<Run(Fin(0), 3), Run(NaN, 1)>>, tail |-> <<Fin(0)>>]
SilenceInf == [runs |-> <<Run(Fin(0), 3), Run(PInf, 1)>>, tail |-> <<Fin(0)>>]
SineNaN == [runs |-> <<Run(Fin(1), 2), Run(NaN, 1)>>,
            tail |-> <<Fin(0), Fin(1), Fin(0), Fin(-1)>>]

Streams == {Silence, Sine4, Alternating, Ramp, SilenceNaN, SilenceInf, SineNaN}

\* (freq, samplef) pairs handed to Goertzel::new: the one of main, a target
\* of 1 Hz, and three that the preconditions of the constructor exclude
\* (freq = 0, freq above samplef / 2, samplef = 0).
Configs == {<<440, 44000>>, <<1, 44000>>, <<0, 44000>>, <<22080, 44000>>, <<440, 0>>}

\* The precondition of construction: samplef > 0 and 0 < freq < samplef / 2.
ValidConfig(f, sf) == sf > 0 /\ f > 0 /\ 2 * f < sf

(***************************************************************************)
(* State.                                                                  *)
(***************************************************************************)
VARIABLES
  freq, samplef,     \* Goertzel.freq, Goertzel.samplef
  s_prev, s_prev2,   \* Goertzel.s_prev, Goertzel.s_prev2: slot -> f32
  totalpower,        \* Goertzel.totalpower: slot -> f32
  n_total,           \* Goertzel.n_total: i32
  n,                 \* Goertzel.n: slot -> i32
  active,            \* Goertzel.active
  out,               \* the value the last call of filter returned
  err,               \* how the last operation ended: "none", or "panic"
  reset,             \* the slots the last call of filter reset
  last_sample,       \* the sample of the last call of filter
  wrapped,           \* n_total has overflowed since construction
  block,             \* the calls in a row that have ended with this active slot
  reset_at,          \* slot -> the stream index of the sample of the call that
                     \* last reset it in this run, -1 before any
  stream, pos        \* the input stream and the number of samples taken from it

vars == <<freq, samplef, s_prev, s_prev2, totalpower, n_total, n, active, out,
          err, reset, last_sample, wrapped, block, reset_at, stream, pos>>

(***************************************************************************)
(* Goertzel::filter, step by step.                                         *)
(***************************************************************************)
\* Lines 57 and 61: s = sample + coeff * s_prev - s_prev2.
Resonate(sample, c, sp, sp2) == FSub(FAdd(sample, CMul(c, sp)), sp2)

\* Line 65: n_total += 1 where the addition wraps.
WrapAdd1(x) == IF x = I32Max THEN I32Min ELSE x + 1

\* The i32 division of line 66 truncates toward zero.
TruncDiv(a, b) == IF a < 0 /\ a % b # 0 THEN (a \div b) + 1 ELSE a \div b

\* Line 66 with the slots switched every W/2 calls.
ActiveSlotHalf(nt) == TruncDiv(nt, W \div 2) % 2

\* Line 66: active = ((n_total / 1000) & 0x01) as usize.
ActiveSlot(nt) == TruncDiv(nt, W) % 2

\* Line 68 naming the active slot itself as the one to reset.
StaleSlotSame(a) == a

\* Line 68: activen = 1 - active.
StaleSlot(a) == 1 - a

\* Two slips of the threshold of line 70: a reset that waits for more than
\* two windows, and one that fires after a tenth of a window.
ShouldResetLate(cnt) == cnt > 2 * W
ShouldResetEarly(cnt) == cnt >= W \div 10

\* Line 70: the stale slot is reset when its count has reached the window.
ShouldReset(cnt) == cnt >= W

\* Lines 70-77 with the reset placed after the accumulation: a slot that
\* is reset ends the call with no energy.
EnergyResetLast(isReset, tp, sq) == IF isReset THEN Fin(0) ELSE FAdd(tp, sq)

\* Lines 70-77, the totalpower of one slot: the reset of line 73 comes
\* before the accumulation of lines 76-77.
EnergyAfter(isReset, tp, sq) == FAdd(IF isReset THEN Fin(0) ELSE tp, sq)

\* filter storing the normalized frequency of line 55 back into self.freq.
StoreNormalized == freq' = (IF samplef = 0 THEN 0 ELSE freq \div samplef) /\ samplef' = samplef

\* Lines 54-82 assign neither self.freq nor self.samplef.
KeepConfig == freq' = freq /\ samplef' = samplef

\* Lines 79-80: s_prev2^2 + s_prev^2 - coeff * s_prev * s_prev2.
RawPower(c, sp, sp2) ==
  FSub(FAdd(FMul(sp2, sp2), FMul(sp, sp)), FMul(CMul(c, sp), sp2))

\* Line 81 without its guard: the bare totalpower as the divisor.
PlusNothing(tp) == IF tp.fin THEN Fin(Sign(tp.v)) ELSE tp

\* Line 81: totalpower + 1e-7.  The sum is positive; for totalpower >= 2
\* it rounds back to totalpower.  Only its class and sign are modelled:
\* v is 1 for any positive finite value.
PlusEpsilon(tp) == IF tp.fin THEN Fin(IF tp.v >= 0 THEN 1 ELSE Sign(tp.v)) ELSE tp

\* One f32 division, on classes and signs: the result is NaN, +Inf, -Inf,
\* or finite with v its sign (-1, 0, 1).
FDivSign(a, b) ==
  IF IsNaN(a) \/ IsNaN(b) THEN NaN
  ELSE IF IsInf(a) THEN (IF IsInf(b) THEN NaN
                         ELSE [fin |-> FALSE, v |-> a.v * (IF b.v < 0 THEN -1 ELSE 1)])
  ELSE IF IsInf(b) THEN Fin(0)
  ELSE IF b.v = 0 THEN (IF a.v = 0 THEN NaN ELSE [fin |-> FALSE, v |-> Sign(a.v)])
  ELSE Fin(Sign(a.v) * Sign(b.v))

\* Line 81: power / (totalpower + 1e-7) / (n as f32).
Quotient(power, tp, cnt) == FDivSign(FDivSign(power, PlusEpsilon(tp)), Fin(cnt))

(***************************************************************************)
(* Construction and the states of a long-running estimator.                *)
(***************************************************************************)
\* Goertzel::new: every field zero, no validation of freq and samplef.
New(f, sf) ==
  /\ freq = f
  /\ samplef = sf
  /\ s_prev = [k \in Slots |-> Fin(0)]
  /\ s_prev2 = [k \in Slots |-> Fin(0)]
  /\ totalpower = [k \in Slots |-> Fin(0)]
  /\ n_total = 0
  /\ n = [k \in Slots |-> 0]
  /\ active = 0
  /\ err = "none"
  /\ wrapped = FALSE
  /\ block = 0

\* The counts of the two slots once the resets have settled into their
\* period of 2 * W calls: the active slot holds W plus the calls since the
\* last switch, the stale slot the calls since the last switch.  (Checked
\* against filter by CountsSettled below.)
LongRunCounts(nt) ==
  LET off == IF nt >= 0 THEN nt % W ELSE (nt + (W - 1)) % W
  IN [k \in Slots |-> IF k = ActiveSlot(nt) THEN W + off ELSE off]

\* The calls since the one that last changed the active slot, in a settled
\* stretch: the quotient of line 66 changes where n_total reaches a multiple
\* of W from below, for a negative n_total one call after it.
SinceSwitch(nt) == IF nt >= 0 THEN nt % W ELSE (nt + (W - 1)) % W

\* The estimator after nt calls on silence, nt in a settled stretch.
LongRun(f, sf, nt, wr) ==
  /\ freq = f
  /\ samplef = sf
  /\ s_prev = [k \in Slots |-> Fin(0)]
  /\ s_prev2 = [k \in Slots |-> Fin(0)]
  /\ totalpower = [k \in Slots |-> Fin(0)]
  /\ n_total = nt
  /\ n = LongRunCounts(nt)
  /\ active = ActiveSlot(nt)
  /\ err = "none"
  /\ wrapped = wr
  /\ block = SinceSwitch(nt) + 1

\* A run starts at construction, or picks a long-running estimator up
\* shortly before n_total overflows, two windows before it returns to zero
\* or shortly before it returns to zero; from there on the caller feeds one
\* of the streams.
Init ==
  /\ \E c \in Configs :
       \/ New(c[1], c[2])
       \/ ValidConfig(c[1], c[2]) /\ LongRun(c[1], c[2], I32Max - WrapLead, FALSE)
       \/ ValidConfig(c[1], c[2]) /\ LongRun(c[1], c[2], -(2 * W), TRUE)
       \/ ValidConfig(c[1], c[2]) /\ LongRun(c[1], c[2], -ZeroLead, TRUE)
  /\ reset_at = [k \in Slots |-> -1]
  /\ stream \in Streams
  /\ pos = 0
  /\ out = Fin(0)
  /\ reset = {}
  /\ last_sample = Fin(0)

(***************************************************************************)
(* Goertzel::filter.                                                       *)
(***************************************************************************)
\* A call of filter that returns (n_total += 1 wraps where it overflows, as
\* in a build without overflow checks).
FilterReturns(sample) ==
  LET c == Coeff(freq, samplef)
      cnt == [k \in Slots |-> n[k] + 1]
      nt == WrapAdd1(n_total)
      a == ActiveSlot(nt)
      stale == StaleSlot(a)
      doReset == ShouldReset(cnt[stale])
      sp == [k \in Slots |->
               IF doReset /\ k = stale THEN Fin(0)
               ELSE Resonate(sample, c, s_prev[k], s_prev2[k])]
      sp2 == [k \in Slots |-> IF doReset /\ k = stale THEN Fin(0) ELSE s_prev[k]]
      sq == FMul(sample, sample)
      tp == [k \in Slots |-> EnergyAfter(doReset /\ k = stale, totalpower[k], sq)]
      cn == [k \in Slots |-> IF doReset /\ k = stale THEN 0 ELSE cnt[k]]
      power == RawPower(c, sp[a], sp2[a])
  IN
  /\ err = "none"
  /\ pos < MaxCalls
  /\ \A k \in Slots : Representable(c, Resonate(sample, c, s_prev[k], s_prev2[k]))
  /\ s_prev' = sp
  /\ s_prev2' = sp2
  /\ totalpower' = tp
  /\ n' = cn
  /\ n_total' = nt
  /\ active' = a
  /\ reset' = IF doReset THEN {stale} ELSE {}
  /\ out' = Quotient(power, tp[a], cn[a])
  /\ wrapped' = (wrapped \/ n_total = I32Max)
  /\ block' = (IF a = active THEN block + 1 ELSE 1)
  /\ reset_at' = [k \in Slots |-> IF doReset /\ k = stale THEN pos ELSE reset_at[k]]
  /\ last_sample' = sample
  /\ pos' = pos + 1
  /\ KeepConfig
  /\ UNCHANGED <<err, stream>>

\* A call of filter in a build with overflow checks, at n_total = i32::MAX:
\* line 65 panics after lines 57-64 have run, and nothing is returned.
FilterPanics(sample) ==
  LET c == Coeff(freq, samplef) IN
  /\ err = "none"
  /\ pos < MaxCalls
  /\ n_total = I32Max
  /\ \A k \in Slots : Representable(c, Resonate(sample, c, s_prev[k], s_prev2[k]))
  /\ s_prev' = [k \in Slots |-> Resonate(sample, c, s_prev[k], s_prev2[k])]
  /\ s_prev2' = s_prev
  /\ n' = [k \in Slots |-> n[k] + 1]
  /\ err' = "panic"
  /\ last_sample' = sample
  /\ pos' = pos + 1
  /\ KeepConfig
  /\ UNCHANGED <<totalpower, n_total, active, out, reset, wrapped, block, reset_at, stream>>

Next ==
  \/ FilterReturns(SampleAt(stream, pos))
  \/ FilterPanics(SampleAt(stream, pos))

Spec == Init /\ [][Next]_vars

(***************************************************************************)
(* The settled stretches of a run, which justify the states LongRun        *)
(* starts from: after the first W calls, after the W + 649 calls that      *)
(* follow the overflow of n_total, and after the 2 * W calls that follow   *)
(* its return to zero, the counts are those of LongRunCounts.              *)
(***************************************************************************)
Settled ==
  \/ ~wrapped /\ n_total >= W
  \/ wrapped /\ n_total < 0 /\ n_total >= I32Min + 649 + W
  \/ wrapped /\ n_total >= 2 * W

CountsSettled == (err = "none" /\ Settled) => n = LongRunCounts(n_total)

(***************************************************************************)
(* Claims.                                                                 *)
(***************************************************************************)
\* The runs that start at construction: every sample of the estimator's
\* life is one of the run, and n_total has counted them.
FromNew == ~wrapped /\ n_total = pos

\* C1: in every call of filter that resets a slot, the slot whose power is
\* reported is the other slot and its sample count is above W / 2.
C1_ReportedSlotMature ==
  reset # {} => (active \notin reset /\ n[active] > W \div 2)

\* C2 as stated: after any sequence of calls each slot's sample count is at
\* most W.
C2_CountAtMostW ==
  (FromNew /\ ValidConfig(freq, samplef)) => \A k \in Slots : n[k] <= W

\* C2 as amended: each slot's sample count is at most 2 * W - 1 until
\* n_total overflows and at most 3 * W - 2 ever, and a slot that a call
\* resets ends that call with n = 0, s_prev = s_prev2 = 0 and totalpower
\* equal to the square of the call's sample.
C2_CountBound ==
  /\ \A k \in Slots : n[k] <= 3 * W - 2 /\ (~wrapped => n[k] <= 2 * W - 1)
  /\ \A k \in reset :
       /\ n[k] = 0
       /\ s_prev[k] = Fin(0)
       /\ s_prev2[k] = Fin(0)
       /\ totalpower[k] = FAdd(Fin(0), FMul(last_sample, last_sample))

\* C2: a slot holds 2 * W - 1 samples, a call before it is reset.
C2_Witness == ~wrapped /\ reset = {} /\ \E k \in Slots : n[k] = 2 * W - 1

\* C3 as stated: after every call of filter, from the first on, one of the
\* two slots has a sample count above W / 2.
C3_OneSlotMature ==
  (FromNew /\ ValidConfig(freq, samplef) /\ pos > 0) =>
     \E k \in Slots : n[k] > W \div 2

\* C3 as amended: both slots hold at most W / 2 samples only during the
\* first W / 2 calls after construction and during the 204 calls that leave
\* n_total in I32Min + 649 .. I32Min + 852 after it has overflowed; after
\* every other call one of the slots has a sample count above W / 2.
C3_OneSlotMatureLater ==
  (\A k \in Slots : n[k] <= W \div 2) =>
     \/ ~wrapped /\ n_total <= W \div 2
     \/ wrapped /\ n_total >= I32Min + 649 /\ n_total <= I32Min + 852

\* C3: the call after the first W / 2, where a slot first holds more.
C3_Witness ==
  ~wrapped /\ n_total = (W \div 2) + 1 /\ \E k \in Slots : n[k] = (W \div 2) + 1

\* The streams whose samples all lie in the input range [-1, 1].
InRangeStreams == {Silence, Sine4, Alternating, Ramp}

\* C5: on silence every call returns exactly 0 and s_prev, s_prev2 and
\* totalpower of both slots stay 0, window resets included (for an
\* estimator constructed within the preconditions of new).
C5_SilenceGivesZero ==
  (ValidConfig(freq, samplef) /\ stream = Silence) =>
     /\ \A k \in Slots :
          s_prev[k] = Fin(0) /\ s_prev2[k] = Fin(0) /\ totalpower[k] = Fin(0)
     /\ pos > 0 => out = Fin(0)

\* C5: the estimator of main, on silence, in a call that resets a slot.
C5_Witness ==
  /\ freq = 440 /\ samplef = 44000 /\ stream = Silence
  /\ n_total = 2 * W /\ reset # {} /\ out = Fin(0)

\* C6: every call of filter returns a non-negative value, for samples in
\* the input range and a coefficient of magnitude at most 2.
C6_NonNegative ==
  (FromNew /\ pos > 0 /\ ValidConfig(freq, samplef) /\ stream \in InRangeStreams) =>
     (out.fin /\ out.v >= 0)

\* C8: every call of filter leaves n_total strictly greater than before.
C8_Monotonic == [][n_total' > n_total]_vars

\* C9: construction with freq outside (0, samplef / 2) or samplef <= 0 ends
\* in a ConfigurationError.
C9_InvalidConfigRejected ==
  ~ValidConfig(freq, samplef) => err = "ConfigurationError"

\* C10: a call of filter with a non-finite sample reports a SignalError and
\* leaves s_prev, s_prev2 and totalpower of both slots unchanged.
C10_NonFiniteRejected ==
  [][(ValidConfig(freq, samplef) /\ ~last_sample'.fin) =>
       /\ err' = "SignalError"
       /\ s_prev' = s_prev /\ s_prev2' = s_prev2 /\ totalpower' = totalpower]_vars

\* C11: after every call that returns, active is (n_total / W) mod 2, and
\* the active slot changes after blocks of exactly W calls (W - 1 for the
\* first block after construction): a change ends a block of that length
\* and a block that is not over is shorter.
C11_BlocksOfW ==
  [][(err' = "none" /\ pos' > pos) =>
       /\ active' = TruncDiv(n_total', W) % 2
       /\ IF active' # active
            THEN block = (IF pos = W - 1 /\ n_total = W - 1 /\ ~wrapped THEN W - 1 ELSE W)
            ELSE block < W]_vars

\* C12 as stated: a slot is reset in exactly the call in which its sample
\* count reaches W.
C12_ResetWhenCountReachesW ==
  [][(FromNew /\ ValidConfig(freq, samplef) /\ err' = "none" /\ pos' > pos) =>
       \A k \in Slots : (k \in reset') <=> (n[k] + 1 = W)]_vars

\* C12, amended: a slot is reset in exactly the calls in which it is the
\* stale slot and its incremented count is at least W, never below W.
\* Before n_total overflows the count it is reset at is W for the reset of
\* call W and 2W for every other one; it is at most 3W - 1 in any case.
C12_ResetWhenStaleAndFull ==
  [][(err' = "none" /\ pos' > pos) =>
       \A k \in Slots :
         /\ (k \in reset') <=> (k # active' /\ n[k] + 1 >= W)
         /\ (k \in reset' /\ ~wrapped') =>
              n[k] + 1 = (IF n_total' = W THEN W ELSE 2 * W)
         /\ (k \in reset') => n[k] + 1 <= 3 * W - 1]_vars

\* Slot 1 has gone through its first reset, at call 2W.
C12_Witness ==
  /\ FromNew /\ n_total = 2 * W
  /\ reset = {1} /\ reset_at[1] = 2 * W - 1 /\ reset_at[0] = W - 1
  /\ n[1] = 0

\* The calls between the last reset of slot 0 and the last reset of slot 1.
Stagger == Abs(reset_at[0] - reset_at[1])

BothReset == \A k \in Slots : reset_at[k] >= 0

\* The stagger that returns to W - 1 calls after the overflow: the active
\* slot stays 1 for the last I32Max % W + 1 calls before the overflow and
\* the first I32Max % W + 2 after it.
WrapStagger == 2 * (I32Max % W) + 3 - W

\* C13 as stated: once both slots have been reset, the resets of slot 0 and
\* the resets of slot 1 are W/2 calls apart, after every later call.
C13_StaggerHalfW ==
  (FromNew /\ ValidConfig(freq, samplef) /\ BothReset) => Stagger = W \div 2

\* C13, amended: once both slots have been reset, their last resets are W
\* calls apart after every call made before n_total overflows; after the
\* overflow the distance is W except for the resets next to the overflow
\* and next to n_total = 0, where it is WrapStagger, W - 1 or 2W.
C13_StaggerW ==
  BothReset =>
    /\ ~wrapped => Stagger = W
    /\ wrapped => Stagger \in {W, W - 1, 2 * W, WrapStagger}

\* Both slots have been reset, W calls apart, and calls have followed.
C13_Witness ==
  /\ FromNew /\ n_total > 2 * W
  /\ reset_at[0] = W - 1 /\ reset_at[1] = 2 * W - 1

\* C14: no call of filter, returning or panicking, changes freq or samplef,
\* so the coefficient of lines 55-56 is the same value in every call.
C14_ConfigKept ==
  [][/\ freq' = freq
     /\ samplef' = samplef
     /\ Coeff(freq', samplef') = Coeff(freq, samplef)]_vars

\* An estimator built by new(440, 44000) after 2W calls and two resets.
C14_Witness ==
  /\ FromNew /\ n_total = 2 * W /\ BothReset
  /\ freq = 440 /\ samplef = 44000

\* C15: after every call that returns, the sample count of the active slot,
\* the divisor of line 81, is at least 1, also after n_total has overflowed.
C15_DivisorAtLeastOne ==
  (pos > 0 /\ err = "none") => n[active] >= 1

\* The call after the overflow that resets slot 1 while slot 0 is reported
\* with its shortest window.
C15_Witness ==
  /\ wrapped /\ pos > 0 /\ err = "none"
  /\ reset = {1} /\ active = 0 /\ n[active] = WrapStagger

\* C16: from call W on and before n_total overflows, the sample count of
\* the active slot when the output is computed is between W and 2W - 1.
C16_ActiveCountRange ==
  (~wrapped /\ err = "none" /\ n_total >= W) =>
    (n[active] >= W /\ n[active] <= 2 * W - 1)

\* The bounds are attained: W at call W, 2W - 1 at call 2W - 1.
C16_Witness ==
  /\ FromNew /\ n_total = 2 * W - 1 /\ active = 1 /\ n[active] = 2 * W - 1

\* The state of one slot after the samples i..t of a stream, from the state
\* w: [cnt, sp, sp2, tp] are the samples counted, the resonator state and
\* the sum of the squares, each extended by one sample at a time in the
\* order of the calls.
RECURSIVE WindowsOf(_, _, _, _, _)
WindowsOf(st, c, i, t, w) ==
  IF i > t \/ w.cnt < 0 THEN w
  ELSE LET x == SampleAt(st, i)
       IN WindowsOf(st, c, i + 1, t,
                    [cnt |-> w.cnt + 1,
                     sp  |-> Resonate(x, c, w.sp, w.sp2),
                     sp2 |-> w.sp,
                     tp  |-> FAdd(w.tp, FMul(x, x))])

\* The same, Chunk samples at a time.
RECURSIVE WindowsByChunk(_, _, _, _, _)
WindowsByChunk(st, c, i, t, w) ==
  IF i > t \/ w.cnt < 0 THEN w
  ELSE LET e == IF i + Chunk - 1 < t THEN i + Chunk - 1 ELSE t
       IN WindowsByChunk(st, c, e + 1, t, WindowsOf(st, c, i, e, w))

\* The windows of a slot that was at rest before sample r: its energy
\* window starts with sample r, its resonator window with sample r + 1.
WindowsSince(st, c, r, t) ==
  LET x == SampleAt(st, r)
  IN WindowsByChunk(st, c, r + 1, t,
               [cnt |-> 0, sp |-> Fin(0), sp2 |-> Fin(0), tp |-> FAdd(Fin(0), FMul(x, x))])

\* C17: a slot reset by the call that took sample r holds, after the call
\* that took sample t and before its next reset, the count t - r and the
\* resonator state of the samples r+1..t, but the energy of the samples
\* r..t; t = r is the reset call itself.  The count is compared after every
\* call, the windows are recomputed from the stream after the first MaxSpan
\* calls that follow a reset and where the count is one short of a multiple
\* of W.
C17_EnergyWindowOneLonger ==
  err = "none" =>
    \A k \in Slots :
      reset_at[k] >= 0 =>
        LET r == reset_at[k]
            t == pos - 1
            built == WindowsSince(stream, Coeff(freq, samplef), r, t)
        IN /\ n[k] = t - r
           /\ (t - r <= MaxSpan \/ (t - r) % W = W - 1) =>
                /\ n[k] = built.cnt
                /\ s_prev[k] = built.sp
                /\ s_prev2[k] = built.sp2
                /\ totalpower[k] = built.tp

\* Two calls after its reset a slot holds two samples in its resonator and
\* the energy of three.
C17_Witness ==
  /\ FromNew /\ reset_at[0] = W - 1 /\ pos = W + 2
  /\ n[0] = 2 /\ totalpower[0] = Fin(3) /\ s_prev[0] # Fin(0)

\* The indices of the non-finite samples of a stream; the periodic tails of
\* the streams are finite.
TaintedSamples(st) == {i \in 0..(RunsLen(st.runs) - 1) : ~IsFinite(SampleAt(st, i))}

SingleTaint(st) == Cardinality(TaintedSamples(st)) = 1

\* The number of the call that takes the non-finite sample.
TaintedCall(st) == (CHOOSE i \in TaintedSamples(st) : TRUE) + 1

SlotsUntainted ==
  \A k \in Slots :
    IsFinite(s_prev[k]) /\ IsFinite(s_prev2[k]) /\ IsFinite(totalpower[k])

\* C18: when one sample of the stream is not finite and every later one is,
\* 2W calls after the call that took it no field of either slot is tainted,
\* and every output after that is finite.
C18_TaintClearsWithin2W ==
  (ValidConfig(freq, samplef) /\ err = "none" /\ SingleTaint(stream)) =>
    /\ pos >= TaintedCall(stream) + 2 * W => SlotsUntainted
    /\ pos > TaintedCall(stream) + 2 * W => IsFinite(out)

=============================================================================
